---- MODULE Spec2Model ----
(***************************************************************************)
(* Model of the file synchronization monitor of dev.py: FilePair, the     *)
(* SyncMonitor engine (sync_file, validate_all_pairs) and its scheduler    *)
(* (run, _monitor_loop, stop), together with the file system the monitor   *)
(* reads and writes and an external writer acting on the same files.       *)
(***************************************************************************)
EXTENDS Integers, Sequences, FiniteSets, TLC

\* ------------------------------------------------------------------ bounds
NPairs == 2         \* number of declared file pairs
MaxContent == 2     \* distinct non-empty file contents
MaxTicks == 3       \* passes over the pairs (the initial pass is pass 1)
MaxEnv == 1         \* external writes to the files in one run
MaxElapsed == 12    \* longest pass over the pairs, in tenths of a second
MaxInterval == 12   \* longest check interval, in tenths of a second
MaxPatterns == 2    \* glob patterns in one configuration

Pairs == 1..NPairs

\* Python's None, for last_hash, last_sync and a failed hash.
None == -1

\* Durations are counted in tenths of a second: the default check_interval
\* of 1.0 s and the 0.1 s floor of the sleep between passes.
DefaultInterval == 10
MinSleep == 1

\* ------------------------------------------------------------ file system
\* A path is absent, a directory, a regular file with some content (data 0
\* is the empty file), a regular file that cannot be opened for reading
\* ("locked"), or a path whose parent cannot be searched ("denied").
File(k, d) == [kind |-> k, data |-> d]
Absent == File("absent", 0)
SrcStates == {Absent, File("dir", 0), File("locked", 0)}
                \cup {File("file", c) : c \in 1..MaxContent}
TgtStates == {Absent, File("dir", 0), File("locked", 0), File("denied", 0)}
                \cup {File("file", c) : c \in 0..MaxContent}

\* What the files are when the monitor starts, and what another process
\* turns them into while it runs.
InitSrc == {Absent, File("dir", 0), File("file", 1)}
InitTgt == {Absent, File("file", 1)}
WriteSrc == {Absent, File("locked", 0)} \cup {File("file", c) : c \in 1..MaxContent}
WriteTgt == {Absent, File("dir", 0), File("locked", 0), File("denied", 0)}
                \cup {File("file", c) : c \in 1..MaxContent}

\* hashlib.sha256 over the content: distinct contents, distinct digests.
Digest(c) == 100 + c

\* calculate_file_hash: the digest, or None when open/read raises.
calculate_file_hash(f) == IF f.kind = "file" THEN Digest(f.data) ELSE None

\* Mutant: a target that cannot be read counts as a failure of the call.
exists_raises_Unreadable(f) == f.kind \in {"denied", "locked", "dir"}

\* Path.exists(): False for a missing path; PermissionError is re-raised.
exists_raises(f) == f.kind = "denied"
exists(f) == f.kind \notin {"absent", "denied"}

\* FilePair.validate: source.exists() and source.is_file().
validate(f) == f.kind \in {"file", "locked"}

\* ------------------------------------------------------------------ state
VARIABLES
    src, tgt,          \* the file system: source and target path of each pair
    file_pairs,        \* SyncMonitor.file_pairs: the FilePair fields
    stats,             \* SyncMonitor.stats
    running,           \* SyncMonitor.running
    notifier, rich,    \* notifier configured and enabled; RICH_AVAILABLE
    pc, idx,           \* position of run()/_monitor_loop and its loop index
    spc, source_hash,  \* position inside sync_file and its local source_hash
    now,               \* the clock read by datetime.now()
    ret,               \* the value the last sync_file call returned
    sent,              \* _send_notification calls of the current call
    summaries,         \* final summaries printed by stop()
    preflight,         \* what validate_all_pairs returned
    tick, order,       \* history: passes started, pairs called in this pass
    env,               \* history: external writes so far
    snap,              \* history: the pair and stats when the call began
    path,              \* history: the way the last call ended
    attempted,         \* history: the call reached shutil.copy2
    fresh,             \* history: the last step was a return of sync_file
    src0,              \* history: the sources as validate_all_pairs saw them
    seen,              \* history: source of each pair at its previous return
    clean,             \* history: calls begun on a pair since it was touched
    last_copied,       \* history: content of the last successful copy
    check_interval,    \* SyncMonitor.check_interval
    elapsed,           \* _monitor_loop's local elapsed
    sleep_time,        \* _monitor_loop's local sleep_time
    exit_code,         \* exit status of the process, None while it runs
    outcome,           \* history: the way each pair's last call ended
    config, tree,      \* create_file_pairs_from_config: its argument, the disk
    new_pairs,         \* its local list file_pairs
    pat_i, yielded     \* its pattern loop, and what rglob has yielded so far

vars == <<src, tgt, file_pairs, stats, running, notifier, rich, pc, idx, spc,
          source_hash, now, ret, sent, summaries, preflight, tick, order, env,
          snap, path, attempted, fresh, src0, seen, clean, last_copied,
          check_interval, elapsed, sleep_time, exit_code, outcome,
          config, tree, new_pairs, pat_i, yielded>>

\* The state of the monitor, and the state of the configuration expansion
\* that main() runs before it constructs the monitor.
monitor == <<src, tgt, file_pairs, stats, running, notifier, rich, pc, idx,
             spc, source_hash, now, ret, sent, summaries, preflight, tick,
             order, env, snap, path, attempted, fresh, src0, seen, clean,
             last_copied, check_interval, elapsed, sleep_time, exit_code,
             outcome>>
expansion == <<config, tree, new_pairs, pat_i, yielded>>

\* FilePair(source, target): the dataclass defaults.
NewPair == [last_hash |-> None, last_sync |-> None, status |-> "pending",
            error_count |-> 0]

\* SyncMonitor.__init__: the statistics.
NewStats == [sync_count |-> 0, error_count |-> 0, last_sync |-> None,
             total_files |-> NPairs, synced_files |-> 0]

\* History of a pair never synchronized, and of a run with no call yet.
Unseen == File("unseen", 0)
NoSnap == [p |-> 0, pair |-> NewPair, sync_count |-> 0, error_count |-> 0,
           last_sync |-> None, src |-> Unseen, tgt |-> Unseen,
           seen |-> Unseen]

InitMonitor ==
    /\ src \in [Pairs -> InitSrc]
    /\ tgt \in [Pairs -> InitTgt]
    /\ file_pairs = [p \in Pairs |-> NewPair]
    /\ stats = NewStats
    /\ running = FALSE
    /\ notifier \in BOOLEAN
    /\ rich \in BOOLEAN
    /\ pc = "new" /\ idx = 1
    /\ spc = "idle" /\ source_hash = None
    /\ now = 0
    /\ ret = "none" /\ sent = <<>> /\ summaries = 0
    /\ preflight = "none"
    /\ tick = 0 /\ order = <<>> /\ env = 0
    /\ snap = NoSnap /\ path = "none" /\ attempted = FALSE /\ fresh = FALSE
    /\ src0 = src
    /\ seen = [p \in Pairs |-> Unseen]
    /\ clean = [p \in Pairs |-> 0]
    /\ last_copied = [p \in Pairs |-> None]
    /\ check_interval = DefaultInterval
    /\ elapsed = None /\ sleep_time = None
    /\ exit_code = None
    /\ outcome = [p \in Pairs |-> "none"]

\* main() with its built-in pair list: no configuration is expanded.
NoExpansion ==
    /\ config = << >> /\ tree = {}
    /\ new_pairs = <<>> /\ pat_i = 0 /\ yielded = {}

Init == InitMonitor /\ NoExpansion

\* ---------------------------------------------------------------- display
\* self.live is set only inside the Live context run() opens around
\* _monitor_loop, and only when rich is available.
live == rich /\ pc \in {"loop", "sleep"}

\* _create_live_display -> _create_stats_panel: recomputes synced_files.
create_live_display(st, fp) ==
    [st EXCEPT !.synced_files =
              Cardinality({p \in Pairs : fp[p].status = "synced"})]

\* _display_status_live: returns at once unless the Live display is open.
display_status_live(st, fp) ==
    IF live THEN create_live_display(st, fp) ELSE st

\* ------------------------------------------------------------ notification
\* _send_notification: the notifier is called only when configured; what it
\* raises is caught and logged.
NotifyOutcomes == IF notifier THEN {"ok", "raised"} ELSE {"off"}

\* Mutant: a notifier that raised turns the call into a failure.
send_notification_Propagates(o, val) == IF o = "raised" THEN "False" ELSE val

\* What sync_file goes on to return after _send_notification ended with
\* outcome o: the call returns normally whatever the notifier did.
send_notification(o, val) == val

\* ---------------------------------------------------------------- sync_file
\* Mutant: the source-hash-failure branch does not count the failure.
HashFailPair_NoCount(fp) == [fp EXCEPT !.status = "error"]

\* The source-hash-failure branch.
HashFailPair(fp) == [fp EXCEPT !.status = "error", !.error_count = @ + 1]
HashFailStats(st) == st
HashFailNotes == <<>>

\* Mutant: the no-op branch forgets the recorded copy.
NoopPair_Reset(fp) == [fp EXCEPT !.status = "synced", !.last_hash = None,
                                 !.last_sync = None]

\* Mutant: the no-op branch stamps the pair as if it had been copied.
NoopPair_Stamp(fp) == [fp EXCEPT !.status = "synced", !.last_sync = now]

\* Mutant: the no-op branch returns without a terminal status.
NoopPair_KeepStatus(fp) == fp

\* The no-op branch: source_hash = target_hash.
NoopPair(fp) == [fp EXCEPT !.status = "synced"]
NoopNotes == <<>>

\* Mutant: the copy branch does not count the synchronization.
CopyStats_NoCount(st, t) == [st EXCEPT !.last_sync = t]

\* Mutant: a successful copy clears the pair's error_count.
CopyPair_ResetErrors(fp, h, t) ==
    [fp EXCEPT !.last_hash = h, !.last_sync = t, !.status = "synced",
               !.error_count = 0]

\* The copy branch, after shutil.copy2 returned.
CopyPair(fp, h, t) == [fp EXCEPT !.last_hash = h, !.last_sync = t,
                                 !.status = "synced"]
CopyStats(st, t) == [st EXCEPT !.sync_count = @ + 1, !.last_sync = t]
CopyNotes == <<"file_changed">>

\* Mutants: the except branch leaves the status, or the run-wide counter.
ExceptPair_KeepStatus(fp) == [fp EXCEPT !.error_count = @ + 1]
ExceptStats_NoCount(st) == st

\* The except branch.
ExceptPair(fp) == [fp EXCEPT !.status = "error", !.error_count = @ + 1]
ExceptStats(st) == [st EXCEPT !.error_count = @ + 1]
ExceptNotes == <<"sync_error">>

\* What shutil.copy2 leaves at the target path when it succeeds: a copy of
\* the source's bytes; an existing directory receives the copy inside it
\* and stays a directory.
copy2(s, t) == IF t.kind = "dir" THEN t ELSE File("file", s.data)

\* What a failed shutil.copy2 may leave: the target untouched, truncated
\* (opened for writing, nothing written), or written in full (copystat
\* raised).
copy2_failed(s, t) ==
    IF s.kind = "file" /\ t.kind \notin {"dir", "denied"}
    THEN {t, File("file", 0), File("file", s.data)}
    ELSE {t}

\* Mutant: a failed call makes the caller leave its for loop.
Return_BreakOnError(val, how, fp, st, notes) ==
    /\ file_pairs' = [file_pairs EXCEPT ![idx] = fp]
    /\ stats' = display_status_live(st, [file_pairs EXCEPT ![idx] = fp])
    /\ \E o \in NotifyOutcomes :
          /\ sent' = [i \in 1..Len(notes) |-> <<notes[i], o>>]
          /\ ret' = IF notes = <<>> THEN val ELSE send_notification(o, val)
    /\ path' = how
    /\ spc' = "idle"
    /\ idx' = IF val = "False" THEN NPairs + 1 ELSE idx + 1
    /\ fresh' = TRUE
    /\ seen' = [seen EXCEPT ![idx] = src[idx]]
    /\ outcome' = [outcome EXCEPT ![idx] = how]
    /\ UNCHANGED <<src, running, notifier, rich, pc, summaries, preflight,
                   tick, order, snap, src0, clean>>
    /\ UNCHANGED <<expansion, check_interval, elapsed, sleep_time, exit_code>>

\* return from sync_file: the finally clause refreshes the display and the
\* caller's loop moves to the next pair (the loop pass sleeps 0.1 s first).
Return(val, how, fp, st, notes) ==
    /\ file_pairs' = [file_pairs EXCEPT ![idx] = fp]
    /\ stats' = display_status_live(st, [file_pairs EXCEPT ![idx] = fp])
    /\ \E o \in NotifyOutcomes :
          /\ sent' = [i \in 1..Len(notes) |-> <<notes[i], o>>]
          /\ ret' = IF notes = <<>> THEN val ELSE send_notification(o, val)
    /\ path' = how
    /\ spc' = "idle"
    /\ idx' = idx + 1
    /\ fresh' = TRUE
    /\ seen' = [seen EXCEPT ![idx] = src[idx]]
    /\ outcome' = [outcome EXCEPT ![idx] = how]
    /\ UNCHANGED <<src, running, notifier, rich, pc, summaries, preflight,
                   tick, order, snap, src0, clean>>
    /\ UNCHANGED <<expansion, check_interval, elapsed, sleep_time, exit_code>>

\* The except branch of sync_file.
Except(how) ==
    Return("False", how, ExceptPair(file_pairs[idx]), ExceptStats(stats),
           ExceptNotes)

\* sync_file, entry: status = "syncing".
SyncBegin ==
    /\ pc \in {"initial", "loop"} /\ spc = "idle" /\ idx \in Pairs
    /\ file_pairs' = [file_pairs EXCEPT ![idx].status = "syncing"]
    /\ stats' = display_status_live(stats, file_pairs')
    /\ spc' = "hash_src"
    /\ order' = Append(order, idx)
    /\ snap' = [p |-> idx, pair |-> file_pairs[idx],
                sync_count |-> stats.sync_count,
                error_count |-> stats.error_count,
                last_sync |-> stats.last_sync,
                src |-> src[idx], tgt |-> tgt[idx], seen |-> seen[idx]]
    /\ sent' = <<>> /\ path' = "running" /\ ret' = "none"
    /\ attempted' = FALSE /\ fresh' = FALSE
    /\ clean' = [clean EXCEPT ![idx] = IF @ < 2 THEN @ + 1 ELSE 2]
    /\ outcome' = [outcome EXCEPT ![idx] = "running"]
    /\ UNCHANGED <<src, tgt, running, notifier, rich, pc, idx, source_hash,
                   now, summaries, preflight, tick, env, src0, seen,
                   last_copied>>
    /\ UNCHANGED <<expansion, check_interval, elapsed, sleep_time, exit_code>>

\* source_hash = calculate_file_hash(source); None ends the call.
HashSource ==
    /\ spc = "hash_src"
    /\ LET h == calculate_file_hash(src[idx]) IN
       IF h = None
       THEN /\ Return("False", "hashfail", HashFailPair(file_pairs[idx]),
                      HashFailStats(stats), HashFailNotes)
            /\ UNCHANGED <<tgt, source_hash, now, env, attempted, last_copied>>
       ELSE /\ source_hash' = h
            /\ spc' = "hash_tgt"
            /\ fresh' = FALSE
            /\ UNCHANGED <<src, tgt, file_pairs, stats, running, notifier,
                           rich, pc, idx, now, ret, sent, summaries,
                           preflight, tick, order, env, snap, path, attempted,
                           src0, seen, clean, last_copied>>
            /\ UNCHANGED <<expansion, check_interval, elapsed, sleep_time, exit_code, outcome>>

\* target.exists(), target_hash, and the comparison.
target_hash(t) == IF exists(t) THEN calculate_file_hash(t) ELSE None

HashTarget ==
    /\ spc = "hash_tgt"
    /\ IF exists_raises(tgt[idx])
       THEN /\ Except("exists_err")
            /\ UNCHANGED <<tgt, source_hash, now, env, attempted, last_copied>>
       ELSE IF source_hash = target_hash(tgt[idx])
       THEN /\ Return("True", "noop", NoopPair(file_pairs[idx]), stats,
                      NoopNotes)
            /\ UNCHANGED <<tgt, source_hash, now, env, attempted, last_copied>>
       ELSE /\ spc' = "mkdir"
            /\ fresh' = FALSE
            /\ UNCHANGED <<src, tgt, file_pairs, stats, running, notifier,
                           rich, pc, idx, source_hash, now, ret, sent,
                           summaries, preflight, tick, order, env, snap, path,
                           attempted, src0, seen, clean, last_copied>>
            /\ UNCHANGED <<expansion, check_interval, elapsed, sleep_time, exit_code, outcome>>

\* target.parent.mkdir(parents=True, exist_ok=True).
Mkdir ==
    /\ spc = "mkdir"
    /\ \/ /\ spc' = "copy"
          /\ fresh' = FALSE
          /\ UNCHANGED <<src, tgt, file_pairs, stats, running, notifier, rich,
                         pc, idx, source_hash, now, ret, sent, summaries,
                         preflight, tick, order, env, snap, path, attempted,
                         src0, seen, clean, last_copied>>
          /\ UNCHANGED <<expansion, check_interval, elapsed, sleep_time, exit_code, outcome>>
       \/ /\ Except("mkdir_err")
          /\ UNCHANGED <<tgt, source_hash, now, env, attempted, last_copied>>

\* shutil.copy2(source, target) and what follows it.
Copy ==
    /\ spc = "copy"
    /\ attempted' = TRUE
    /\ \/ /\ src[idx].kind = "file" /\ tgt[idx].kind # "denied"
          /\ tgt' = [tgt EXCEPT ![idx] = copy2(src[idx], @)]
          /\ now' = now + 2
          /\ Return("True", "copy",
                    CopyPair(file_pairs[idx], source_hash, now + 1),
                    CopyStats(stats, now + 2), CopyNotes)
          /\ last_copied' = [last_copied EXCEPT ![idx] = src[idx].data]
          /\ UNCHANGED <<source_hash, env>>
       \/ /\ \E t \in copy2_failed(src[idx], tgt[idx]) :
                tgt' = [tgt EXCEPT ![idx] = t]
          /\ Except("copy_err")
          /\ UNCHANGED <<source_hash, now, env, last_copied>>

\* ------------------------------------------------------------- scheduler
\* Mutant: one valid pair is enough.
validate_all_pairs_Any == \E p \in Pairs : validate(src[p])

\* validate_all_pairs.
validate_all_pairs == \A p \in Pairs : validate(src[p])

\* run(), up to the preflight gate. When validation fails run() logs and
\* returns; main() then falls off its end and the process exits with 0.
Run ==
    /\ pc = "new"
    /\ running' = TRUE
    /\ now' = now + 1
    /\ src0' = src
    /\ IF validate_all_pairs
       THEN /\ preflight' = "pass" /\ pc' = "initial" /\ tick' = 1
            /\ exit_code' = exit_code
       ELSE /\ preflight' = "fail" /\ pc' = "returned" /\ tick' = 0
            /\ exit_code' = 0
    /\ idx' = 1
    /\ fresh' = FALSE
    /\ UNCHANGED <<src, tgt, file_pairs, stats, notifier, rich, spc,
                   source_hash, ret, sent, summaries, order, env, snap, path,
                   attempted, seen, clean, last_copied>>
    /\ UNCHANGED <<expansion, check_interval, elapsed, sleep_time, outcome>>

\* run() after the initial pass: with rich it builds the first display for
\* Live(...), then enters _monitor_loop, first iteration.
LoopEnter ==
    /\ pc = "initial" /\ spc = "idle" /\ idx = NPairs + 1
    /\ running
    /\ tick < MaxTicks
    /\ stats' = IF rich THEN create_live_display(stats, file_pairs) ELSE stats
    /\ pc' = "loop" /\ idx' = 1
    /\ tick' = tick + 1 /\ order' = <<>>
    /\ fresh' = FALSE
    /\ UNCHANGED <<src, tgt, file_pairs, running, notifier, rich, spc,
                   source_hash, now, ret, sent, summaries, preflight, env,
                   snap, path, attempted, src0, seen, clean, last_copied>>
    /\ UNCHANGED <<expansion, check_interval, elapsed, sleep_time, exit_code, outcome>>

\* Mutant: the remainder of the interval, without the floor.
sleep_for_NoFloor(interval, e) == interval - e

\* max(0.1, self.check_interval - elapsed)
sleep_for(interval, e) ==
    IF interval - e > MinSleep THEN interval - e ELSE MinSleep

\* _monitor_loop after the for loop: refresh the display, measure the time
\* the pass took, then sleep.
LoopSleep ==
    /\ pc = "loop" /\ spc = "idle" /\ idx = NPairs + 1
    /\ stats' = display_status_live(stats, file_pairs)
    /\ \E e \in 0..MaxElapsed :
          /\ elapsed' = e
          /\ sleep_time' = sleep_for(check_interval, e)
    /\ pc' = "sleep"
    /\ fresh' = FALSE
    /\ UNCHANGED <<src, tgt, file_pairs, running, notifier, rich, idx, spc,
                   source_hash, now, ret, sent, summaries, preflight, tick,
                   order, env, snap, path, attempted, src0, seen, clean,
                   last_copied>>
    /\ UNCHANGED <<expansion, check_interval, exit_code, outcome>>

\* _monitor_loop: the sleep is over, while self.running holds.
LoopWake ==
    /\ pc = "sleep"
    /\ running
    /\ tick < MaxTicks
    /\ pc' = "loop" /\ idx' = 1
    /\ tick' = tick + 1 /\ order' = <<>>
    /\ elapsed' = None /\ sleep_time' = None
    /\ fresh' = FALSE
    /\ UNCHANGED <<src, tgt, file_pairs, stats, running, notifier, rich, spc,
                   source_hash, now, ret, sent, summaries, preflight, env,
                   snap, path, attempted, src0, seen, clean, last_copied>>
    /\ UNCHANGED <<expansion, check_interval, exit_code, outcome>>

\* KeyboardInterrupt. Inside _monitor_loop it is caught and the finally
\* clause calls stop(), which clears running and prints the final summary;
\* run() and main() then return and the process exits with 0. During the
\* initial pass of run() nothing catches it, main() catches Exception only,
\* and the interpreter ends the process with the status of SIGINT.
\* A sync_file call in progress is abandoned (its except clause catches
\* Exception only; its finally clause refreshes the display).
Interrupt ==
    /\ pc \in {"initial", "loop", "sleep"}
    /\ spc' = "idle"
    /\ stats' = display_status_live(stats, file_pairs)
    /\ IF pc = "initial"
       THEN /\ pc' = "killed"
            /\ exit_code' = 130
            /\ UNCHANGED <<running, summaries>>
       ELSE /\ pc' = "stopped"
            /\ running' = FALSE
            /\ summaries' = summaries + 1
            /\ exit_code' = 0
    /\ elapsed' = None /\ sleep_time' = None
    /\ fresh' = FALSE
    /\ UNCHANGED <<src, tgt, file_pairs, notifier, rich, idx, source_hash,
                   now, ret, sent, preflight, tick, order, env, snap, path,
                   attempted, src0, seen, clean, last_copied>>
    /\ UNCHANGED <<expansion, check_interval, outcome>>

\* ------------------------------------------------------------ environment
Active == pc \in {"initial", "loop", "sleep"}

\* Another process rewrites, removes or locks a source file.
ExtSource ==
    /\ Active /\ env < MaxEnv
    /\ \E p \in Pairs : \E f \in WriteSrc \ {src[p]} :
          /\ src' = [src EXCEPT ![p] = f]
          /\ clean' = [clean EXCEPT ![p] = 0]
    /\ env' = env + 1
    /\ fresh' = FALSE
    /\ UNCHANGED <<tgt, file_pairs, stats, running, notifier, rich, pc, idx,
                   spc, source_hash, now, ret, sent, summaries, preflight,
                   tick, order, snap, path, attempted, src0, seen,
                   last_copied>>
    /\ UNCHANGED <<expansion, check_interval, elapsed, sleep_time, exit_code, outcome>>

\* Another process rewrites, removes or locks a target path.
ExtTarget ==
    /\ Active /\ env < MaxEnv
    /\ \E p \in Pairs : \E f \in WriteTgt \ {tgt[p]} :
          /\ tgt' = [tgt EXCEPT ![p] = f]
          /\ clean' = [clean EXCEPT ![p] = 0]
    /\ env' = env + 1
    /\ fresh' = FALSE
    /\ UNCHANGED <<src, file_pairs, stats, running, notifier, rich, pc, idx,
                   spc, source_hash, now, ret, sent, summaries, preflight,
                   tick, order, snap, path, attempted, src0, seen,
                   last_copied>>
    /\ UNCHANGED <<expansion, check_interval, elapsed, sleep_time, exit_code, outcome>>

Next ==
    \/ Run
    \/ SyncBegin
    \/ HashSource
    \/ HashTarget
    \/ Mkdir
    \/ Copy
    \/ LoopEnter
    \/ LoopSleep
    \/ LoopWake
    \/ Interrupt
    \/ ExtSource
    \/ ExtTarget

Spec == Init /\ [][Next]_vars

\* ------------------------------------------------- the sleep between passes
\* The monitor at the end of its first loop pass, every pair found in sync
\* in both passes so far.
Synced == File("file", 1)
SyncedPair == [NewPair EXCEPT !.status = "synced"]

EndOfPass ==
    /\ src = [p \in Pairs |-> Synced] /\ tgt = src
    /\ file_pairs = [p \in Pairs |-> SyncedPair]
    /\ stats = IF rich THEN [NewStats EXCEPT !.synced_files = NPairs]
                        ELSE NewStats
    /\ running = TRUE
    /\ pc = "loop" /\ idx = NPairs + 1
    /\ spc = "idle" /\ source_hash = Digest(1)
    /\ now = 1
    /\ ret = "True" /\ sent = <<>> /\ summaries = 0
    /\ preflight = "pass"
    /\ tick = 2 /\ order = [i \in 1..NPairs |-> i] /\ env = 0
    /\ snap = [p |-> NPairs, pair |-> SyncedPair, sync_count |-> 0,
               error_count |-> 0, last_sync |-> None, src |-> Synced,
               tgt |-> Synced, seen |-> Synced]
    /\ path = "noop" /\ attempted = FALSE /\ fresh = TRUE
    /\ src0 = src
    /\ seen = src
    /\ clean = [p \in Pairs |-> 2]
    /\ last_copied = [p \in Pairs |-> None]
    /\ elapsed = None /\ sleep_time = None
    /\ exit_code = None
    /\ outcome = [p \in Pairs |-> "noop"]
    /\ NoExpansion

\* The same state under every check interval the command line can set.
SleepInit ==
    /\ notifier \in BOOLEAN
    /\ rich \in BOOLEAN
    /\ check_interval \in 0..MaxInterval
    /\ EndOfPass

SleepNext ==
    \/ LoopSleep
    \/ LoopWake

SleepSpec == SleepInit /\ [][SleepNext]_vars

\* ---------------------------------------------- configuration expansion
\* A path is a sequence of components; a component is <<stem, extension>>
\* ("foo.py" is <<"foo", "py">>, "x" is <<"x", "">>). An absolute path
\* starts with the root.
Root == <<"/", "">>
Cwd == <<Root>>

\* Path.resolve(): a relative path is taken from the working directory.
resolve(q) == IF q[1] = Root THEN q ELSE Cwd \o q

\* fnmatch of a component against a pattern such as "*.py" or "foo.*".
fnmatch(n, pat) ==
    /\ pat[1] = "*" \/ pat[1] = n[1]
    /\ IF pat[2] = "*" THEN n[2] # "" ELSE pat[2] = n[2]

\* Mutant: Path.glob in place of Path.rglob, the directory's own entries.
rglob_OneLevel(t, dir, pat) ==
    {e \in t : /\ Len(e.path) = Len(dir) + 1
               /\ SubSeq(e.path, 1, Len(dir)) = dir
               /\ fnmatch(e.path[Len(e.path)], pat)}

\* Path.rglob(pattern): every entry below dir, at any depth, whose name
\* matches.
rglob(t, dir, pat) ==
    {e \in t : /\ Len(e.path) > Len(dir)
               /\ SubSeq(e.path, 1, Len(dir)) = dir
               /\ fnmatch(e.path[Len(e.path)], pat)}

is_file(e) == e.kind = "file"
relative_to(q, base) == SubSeq(q, Len(base) + 1, Len(q))
joinpath(base, rel) == base \o rel

\* config.get('patterns', ['*.py', '*.ini', '*.txt'])
DefaultPatterns == << <<"*", "py">>, <<"*", "ini">>, <<"*", "txt">> >>
patterns(c) == IF "patterns" \in DOMAIN c THEN c["patterns"]
                                          ELSE DefaultPatterns

\* What the disk may hold when the configuration is read.
Entry(q, k) == [path |-> q, kind |-> k]
Universe ==
    { Entry(<<Root, <<"src", "">>, <<"foo", "py">> >>, "file"),
      Entry(<<Root, <<"src", "">>, <<"readme", "md">> >>, "file"),
      Entry(<<Root, <<"src", "">>, <<"x", "">> >>, "dir"),
      Entry(<<Root, <<"src", "">>, <<"x", "">>, <<"foo", "py">> >>, "file"),
      Entry(<<Root, <<"src", "">>, <<"x", "">>, <<"notes", "txt">> >>, "file"),
      Entry(<<Root, <<"src", "">>, <<"x", "">>, <<"d", "py">> >>, "dir"),
      Entry(<<Root, <<"other", "">>, <<"foo", "py">> >>, "file") }
Trees ==
    {t \in SUBSET Universe :
        \A e \in t : Len(e.path) > 3 =>
            Entry(SubSeq(e.path, 1, Len(e.path) - 1), "dir") \in t}

\* The configurations: any of the keys may be missing.
Globs == { <<"*", "py">>, <<"*", "txt">>, <<"foo", "*">> }
PatternLists == UNION {[1..n -> Globs] : n \in 0..MaxPatterns}
Mappings == << [source |-> << <<"a", "py">> >>,
                target |-> <<Root, <<"out", "">>, <<"a", "py">> >>] >>
FullConfigs ==
    [file_mappings : {Mappings},
     source_dir : { <<Root, <<"src", "">> >>, << <<"src", "">> >> },
     target_dir : { <<Root, <<"out", "">> >>, << <<"out", "">> >> },
     patterns : PatternLists]
KeySets == { {"source_dir", "target_dir", "patterns"},
             {"source_dir", "target_dir"},
             {"file_mappings", "source_dir", "target_dir", "patterns"},
             {"source_dir", "patterns"},
             {} }
Configs == {[k \in D |-> c[k]] : c \in FullConfigs, D \in KeySets}

\* Where the pattern loop stands once the function has returned.
Returned(c) == Len(patterns(c)) + 1

\* create_file_pairs_from_config, entry: the explicit mappings, or the
\* directory expansion, or nothing.
Create ==
    /\ pat_i = 0
    /\ IF "file_mappings" \in DOMAIN config
       THEN /\ new_pairs' =
                  [i \in 1..Len(config["file_mappings"]) |->
                      [source |-> resolve(config["file_mappings"][i].source),
                       target |-> resolve(config["file_mappings"][i].target)]]
            /\ pat_i' = Returned(config)
       ELSE IF "source_dir" \in DOMAIN config /\ "target_dir" \in DOMAIN config
       THEN /\ new_pairs' = <<>>
            /\ pat_i' = 1
       ELSE /\ new_pairs' = <<>>
            /\ pat_i' = Returned(config)
    /\ yielded' = {}
    /\ UNCHANGED <<config, tree>>
    /\ UNCHANGED monitor

\* One iteration of 'for source_file in source_dir.rglob(pattern)'.
Yield ==
    /\ pat_i \in 1..Len(patterns(config))
    /\ LET source_dir == resolve(config["source_dir"])
           target_dir == resolve(config["target_dir"])
       IN \E source_file \in
               rglob(tree, source_dir, patterns(config)[pat_i]) \ yielded :
             /\ yielded' = yielded \cup {source_file}
             /\ new_pairs' =
                   IF is_file(source_file)
                   THEN Append(new_pairs,
                          [source |-> source_file.path,
                           target |-> joinpath(target_dir,
                              relative_to(source_file.path, source_dir))])
                   ELSE new_pairs
    /\ UNCHANGED <<config, tree, pat_i>>
    /\ UNCHANGED monitor

\* rglob is exhausted: the next pattern, or return file_pairs.
NextPattern ==
    /\ pat_i \in 1..Len(patterns(config))
    /\ LET source_dir == resolve(config["source_dir"])
       IN rglob(tree, source_dir, patterns(config)[pat_i]) \subseteq yielded
    /\ pat_i' = pat_i + 1
    /\ yielded' = {}
    /\ UNCHANGED <<config, tree, new_pairs>>
    /\ UNCHANGED monitor

\* main() before the monitor is constructed: any configuration, any disk.
ExpandInit ==
    /\ InitMonitor
    /\ src = [p \in Pairs |-> File("file", 1)]
    /\ tgt = [p \in Pairs |-> Absent]
    /\ notifier /\ rich
    /\ config \in Configs
    /\ tree \in Trees
    /\ new_pairs = <<>> /\ pat_i = 0 /\ yielded = {}

ExpandNext ==
    \/ Create
    \/ Yield
    \/ NextPattern

ExpandSpec == ExpandInit /\ [][ExpandNext]_vars

\* ------------------------------------------------------------------ claims
\* The pair the current or last sync_file call is about.
called == snap.p

\* The source content changed between the pair's previous return and this
\* call; the source is the same as at the previous return.
SourceChanged ==
    /\ snap.seen.kind = "file" /\ snap.src.kind = "file"
    /\ snap.seen.data # snap.src.data
Failed == path \in {"hashfail", "exists_err", "mkdir_err", "copy_err"}

\* C1 (as stated): a pair whose status is "synced" has last_hash set, equal
\* to the digest of the source content of its last successful copy, and its
\* target exists with a content digest equal to last_hash.
C1_SyncedHasDigest ==
    \A p \in Pairs :
        file_pairs[p].status = "synced" =>
            /\ file_pairs[p].last_hash # None
            /\ last_copied[p] # None
            /\ file_pairs[p].last_hash = Digest(last_copied[p])
            /\ exists(tgt[p])
            /\ calculate_file_hash(tgt[p]) = file_pairs[p].last_hash

\* C2 (as stated): when the source cannot be hashed the pair becomes
\* "error", the pair's error_count and the run-wide error_count each grow
\* by exactly 1, and no copy is attempted.
C2_HashFailureCounted ==
    path = "hashfail" =>
        /\ file_pairs[called].status = "error"
        /\ file_pairs[called].error_count = snap.pair.error_count + 1
        /\ stats.error_count = snap.error_count + 1
        /\ ~attempted

C4_UnchangedSourceIsNoop ==
    (fresh /\ snap.pair.status = "synced" /\ snap.src.kind = "file"
           /\ snap.seen = snap.src /\ src[called] = snap.src) =>
        /\ file_pairs[called].status = "synced"
        /\ file_pairs[called].last_hash = snap.pair.last_hash
        /\ file_pairs[called].last_sync = snap.pair.last_sync
        /\ stats.sync_count = snap.sync_count

\* C4 (amended): a pair "synced" after one tick, whose source and target
\* no other process wrote from the start of that tick's call to the end of
\* the next tick's call and whose target is a regular file, is "synced"
\* after the next tick with the same last_hash and last_sync, and sync_count
\* is not increased.
C4_UntouchedPairIsNoop ==
    (fresh /\ snap.pair.status = "synced" /\ clean[called] = 2
           /\ tgt[called].kind = "file") =>
        /\ path = "noop"
        /\ file_pairs[called].status = "synced"
        /\ file_pairs[called].last_hash = snap.pair.last_hash
        /\ file_pairs[called].last_sync = snap.pair.last_sync
        /\ stats.sync_count = snap.sync_count

\* C4 witness: a no-op confirmation of a pair copied in an earlier tick.
C4_Witness ==
    /\ fresh /\ snap.pair.status = "synced" /\ clean[called] = 2
    /\ tgt[called].kind = "file" /\ path = "noop"
    /\ file_pairs[called].last_hash # None
    /\ file_pairs[called].last_sync # None

\* C5 (as stated): when sync_file returns True via the copy path,
\* digest(target) = digest(source) = last_hash on return.
C5_RoundTrip ==
    (fresh /\ path = "copy") =>
        /\ ret = "True"
        /\ calculate_file_hash(tgt[called]) = calculate_file_hash(src[called])
        /\ calculate_file_hash(src[called]) = file_pairs[called].last_hash

\* No sync_file call has begun and no copy was made.
NoSyncYet ==
    /\ tick = 0 /\ order = <<>> /\ path = "none" /\ ~attempted
    /\ spc = "idle"
    /\ \A p \in Pairs : file_pairs[p] = NewPair
    /\ stats.sync_count = 0

\* C6: if at run() start some pair's source does not exist or is not a
\* regular file, validate_all_pairs returns False and run() returns with no
\* sync_file call and no copy on any pair; if every source is valid it
\* returns True; and no sync_file call precedes the validation.
C6_PreflightGate ==
    /\ preflight = "none" => (pc = "new" /\ NoSyncYet)
    /\ pc # "new" =>
          (preflight = "fail" <=>
              \E p \in Pairs : src0[p].kind \in {"absent", "dir"})
    /\ pc # "new" =>
          (preflight = "pass" <=>
              \A p \in Pairs : src0[p].kind \in {"file", "locked"})
    /\ preflight = "fail" => (pc = "returned" /\ NoSyncYet)

\* C6 witness: run() has returned on a failed preflight although one of the
\* sources is a valid regular file.
C6_Witness ==
    /\ preflight = "fail" /\ pc = "returned"
    /\ \E p \in Pairs : src0[p].kind = "file"
    /\ \E p \in Pairs : src0[p].kind = "absent"
    /\ \A p \in Pairs : file_pairs[p].status = "pending"

\* C7: a failure inside sync_file (source hash, target.exists, mkdir, copy)
\* ends the call with the pair in status "error", the return value False and
\* the caller's loop at the next pair: nothing is raised to the caller.
C7_FailureIsReturned ==
    /\ Failed =>
          /\ file_pairs[called].status = "error"
          /\ ret = "False"
          /\ spc = "idle"
    /\ (fresh /\ Failed) =>
          /\ pc \in {"initial", "loop"}
          /\ idx = called + 1
    /\ (path = "running" /\ spc = "idle") => pc \in {"killed", "stopped"}

\* C7 witness: the second pair's target.exists() raised after the first pair's
\* copy failed, and the loop went on.
C7_Witness ==
    /\ fresh /\ path = "exists_err" /\ called = 2
    /\ file_pairs[1].status = "error" /\ file_pairs[1].error_count = 1
    /\ file_pairs[2].status = "error" /\ ret = "False"

\* C8 (as stated): every sync_file call emits exactly one terminal event to
\* the sink, on the no-op path, the copy path and every error path.
C8_OneTerminalEvent ==
    fresh =>
        /\ Len(sent) = 1
        /\ path = "copy" => sent[1][1] = "file_changed"
        /\ Failed => sent[1][1] = "sync_error"

\* C9: when mkdir or the copy raises, the pair becomes "error", the pair's
\* and the run-wide error_count each grow by exactly 1, one "sync_error"
\* notification is issued, and last_hash, last_sync and sync_count keep
\* their values.
C9_CopyFailure ==
    path \in {"mkdir_err", "copy_err"} =>
        /\ file_pairs[called].status = "error"
        /\ file_pairs[called].error_count = snap.pair.error_count + 1
        /\ stats.error_count = snap.error_count + 1
        /\ Len(sent) = 1 /\ sent[1][1] = "sync_error"
        /\ file_pairs[called].last_hash = snap.pair.last_hash
        /\ file_pairs[called].last_sync = snap.pair.last_sync
        /\ stats.sync_count = snap.sync_count
        /\ stats.last_sync = snap.last_sync

\* C9 witness: the copy fails for a pair that an earlier tick had copied.
C9_Witness ==
    /\ fresh /\ path = "copy_err" /\ attempted
    /\ snap.pair.last_hash # None
    /\ file_pairs[called].error_count = 1
    /\ stats.sync_count >= 1

\* C10: in every pass sync_file is called on the pairs in declaration order,
\* once each, whatever the earlier pairs' outcomes were; a finished pass has
\* called every pair; and a pass with errors leaves the loop running, so
\* that only the preflight or an interrupt ends the run.
C10_EveryPairEveryTick ==
    /\ Len(order) <= NPairs
    /\ \A i \in 1..Len(order) : order[i] = i
    /\ (pc \in {"initial", "loop"} /\ spc = "idle") => Len(order) = idx - 1
    /\ pc = "sleep" => Len(order) = NPairs
    /\ pc \in {"initial", "loop", "sleep"} => running
    /\ (pc \in {"initial", "loop"} /\ spc = "idle" /\ idx \in Pairs) =>
          ENABLED SyncBegin
    /\ (pc = "initial" /\ spc = "idle" /\ idx = NPairs + 1 /\ tick < MaxTicks) =>
          ENABLED LoopEnter
    /\ (pc = "loop" /\ spc = "idle" /\ idx = NPairs + 1) => ENABLED LoopSleep
    /\ (pc = "sleep" /\ tick < MaxTicks) => ENABLED LoopWake

\* C10 witness: the third pass has called every pair although the first pair
\* failed in both earlier passes.
C10_Witness ==
    /\ tick = 3 /\ pc = "loop" /\ spc = "idle"
    /\ order = [i \in 1..NPairs |-> i]
    /\ file_pairs[1].error_count >= 2
    /\ file_pairs[NPairs].status = "synced"

\* C11: a cancellation arriving at any point after validation passed,
\* the initial pass and a sync_file call in progress included, runs the stop
\* finalization exactly once before run() exits: running is False and the
\* final summary was printed once.
C11_StopRunsOnce ==
    pc \in {"killed", "stopped"} => running = FALSE /\ summaries = 1

\* C12: cancellation takes effect at pair boundaries only: a sync_file
\* call that has started reaches a terminal status, so no pair is left with
\* status "syncing" once the monitor has stopped.
C12_NoPairLeftSyncing ==
    pc = "stopped" => \A p \in Pairs : file_pairs[p].status # "syncing"

\* C13: when validate_all_pairs fails in run() the process exits with a
\* non-zero exit code.
C13_PreflightFailureExitsNonZero ==
    preflight = "fail" => exit_code # None /\ exit_code # 0

\* C14: after a loop pass the scheduler sleeps
\* max(0.1, check_interval - elapsed): never less than the 0.1 s floor,
\* whatever the pass took, and when elapsed <= check_interval - 0.1 the
\* pass and the sleep together last check_interval.
C14_SleepCompensates ==
    pc = "sleep" =>
        /\ sleep_time >= MinSleep
        /\ elapsed <= check_interval - MinSleep =>
              elapsed + sleep_time = check_interval
        /\ elapsed > check_interval - MinSleep => sleep_time = MinSleep

\* C14: 0.7 s of work with a 1.0 s interval gives a 0.3 s sleep, and a
\* pass that overruns the interval is seen as well.
C14_Witness ==
    /\ pc = "sleep" /\ check_interval = 10 /\ elapsed = 7 /\ sleep_time = 3

\* C15: on the no-op path (the target exists and its digest equals the
\* source digest) only the pair's status changes: no copy is performed, the
\* target content is untouched, the pair's last_hash, last_sync and
\* error_count and the run-wide sync_count, error_count and last_sync are
\* what they were when the call began; the status is "synced" and the call
\* returns True.
C15_NoopChangesStatusOnly ==
    (fresh /\ path = "noop") =>
        /\ exists(tgt[called])
        /\ calculate_file_hash(tgt[called]) = source_hash
        /\ ~attempted
        /\ clean[called] > 0 => tgt[called] = snap.tgt
        /\ file_pairs[called] = [snap.pair EXCEPT !.status = "synced"]
        /\ stats.sync_count = snap.sync_count
        /\ stats.error_count = snap.error_count
        /\ stats.last_sync = snap.last_sync
        /\ ret = "True"

\* C15: a no-op call on a pair that has failed before and has been
\* copied before, in a run that has counted both.
C15_Witness ==
    /\ fresh /\ path = "noop"
    /\ snap.pair.error_count > 0 /\ snap.pair.last_hash # None
    /\ snap.pair.status = "synced"
    /\ stats.sync_count > 0 /\ stats.error_count > 0

\* C16: a pair's error_count never decreases and is never reset: every
\* step leaves it unchanged, except the return of a failed sync_file call on
\* that pair, which adds exactly 1; a successful no-op or copy adds 0.
C16_ErrorCountSteps ==
    [][\A p \in Pairs :
          file_pairs'[p].error_count =
              file_pairs[p].error_count
                + (IF fresh' /\ called' = p /\ ret' = "False" THEN 1 ELSE 0)]_vars

\* C16: a pair that failed twice has then been copied successfully and
\* still counts both failures.
C16_Witness ==
    /\ fresh /\ path = "copy" /\ ret = "True"
    /\ file_pairs[called].error_count = 2
    /\ file_pairs[called].status = "synced"

\* C17: a pair with status "error" has error_count >= 1 and its most
\* recent sync_file attempt failed at hashing the source or at the copy step
\* (creating the target's parent directories, or copying).
C17_ErrorFromHashOrCopy ==
    \A p \in Pairs :
        file_pairs[p].status = "error" =>
            /\ file_pairs[p].error_count >= 1
            /\ outcome[p] \in {"hashfail", "mkdir_err", "copy_err"}

\* C17, amended: a pair with status "error" has error_count >= 1 and its
\* most recent sync_file attempt failed at hashing the source, at
\* target.exists(), or at the copy step.
C17_ErrorFromFailedAttempt ==
    \A p \in Pairs :
        file_pairs[p].status = "error" =>
            /\ file_pairs[p].error_count >= 1
            /\ outcome[p] \in {"hashfail", "exists_err", "mkdir_err",
                               "copy_err"}

\* C17: a pair in status "error" whose last attempt failed at
\* target.exists().
C17_Witness ==
    \E p \in Pairs :
        /\ file_pairs[p].status = "error"
        /\ outcome[p] = "exists_err"
        /\ file_pairs[p].error_count >= 1

\* C18: after every pass synced_files equals the number of pairs whose
\* status is "synced" and does not exceed total_files, with or without
\* the rich live display.
C18_SyncedFilesCurrent ==
    pc = "sleep" =>
        /\ stats.synced_files =
              Cardinality({p \in Pairs : file_pairs[p].status = "synced"})
        /\ stats.synced_files <= stats.total_files

\* C19: whatever the notifier did with the "file_changed" or
\* "sync_error" notification, raising included, the pair's status,
\* last_hash, last_sync and error_count, the run-wide sync_count and
\* error_count and the return value are those of the branch that sent it.
C19_NotifierCannotChangeState ==
    (fresh /\ sent # <<>>) =>
        /\ path = "copy" =>
              /\ ret = "True"
              /\ file_pairs[called] =
                    [snap.pair EXCEPT !.status = "synced",
                                      !.last_hash = source_hash,
                                      !.last_sync = now - 1]
              /\ stats.sync_count = snap.sync_count + 1
              /\ stats.error_count = snap.error_count
        /\ path # "copy" =>
              /\ ret = "False"
              /\ file_pairs[called] =
                    [snap.pair EXCEPT !.status = "error",
                                      !.error_count = @ + 1]
              /\ stats.sync_count = snap.sync_count
              /\ stats.error_count = snap.error_count + 1

\* C19: the notifier raised on a "file_changed" notification.
C19_Witness ==
    /\ fresh /\ path = "copy"
    /\ sent = <<(<<"file_changed", "raised">>)>>
    /\ ret = "True" /\ file_pairs[called].status = "synced"

\* C20: directory expansion mirrors relative paths. For a configuration
\* with source_dir and target_dir (and no explicit mappings), once the
\* function has returned, every regular file below source_dir, at any
\* depth, whose name matches one of the patterns has a pair
\* (source_dir/rel, target_dir/rel), and every pair is such a file with its
\* mirrored target: a file matching no pattern has none.
C20_ExpansionMirrors ==
    (/\ pat_i # 0 /\ pat_i = Returned(config)
     /\ "file_mappings" \notin DOMAIN config
     /\ {"source_dir", "target_dir"} \subseteq DOMAIN config) =>
        LET S == resolve(config["source_dir"])
            T == resolve(config["target_dir"])
            P == patterns(config)
            Below(q) == Len(q) > Len(S) /\ SubSeq(q, 1, Len(S)) = S
            Rel(q) == SubSeq(q, Len(S) + 1, Len(q))
            Matches(q) == \E i \in 1..Len(P) : fnmatch(q[Len(q)], P[i])
            Mirror(q) == [source |-> S \o Rel(q), target |-> T \o Rel(q)]
        IN /\ \A e \in tree :
                (e.kind = "file" /\ Below(e.path) /\ Matches(e.path)) =>
                    \E k \in 1..Len(new_pairs) : new_pairs[k] = Mirror(e.path)
           /\ \A k \in 1..Len(new_pairs) :
                \E e \in tree :
                    /\ e.kind = "file" /\ Below(e.path) /\ Matches(e.path)
                    /\ new_pairs[k] = Mirror(e.path)

\* C20: source_dir holds x/foo.py and readme.md, the pattern is *.py and
\* target_dir is /out: the result is the one pair
\* (source_dir/x/foo.py, /out/x/foo.py).
C20_Witness ==
    /\ pat_i = 2 /\ "file_mappings" \notin DOMAIN config
    /\ "patterns" \in DOMAIN config /\ config["patterns"] = << <<"*", "py">> >>
    /\ Entry(<<Root, <<"src", "">>, <<"readme", "md">> >>, "file") \in tree
    /\ new_pairs =
          << [source |-> <<Root, <<"src", "">>, <<"x", "">>, <<"foo", "py">> >>,
              target |-> <<Root, <<"out", "">>, <<"x", "">>, <<"foo", "py">> >>] >>

\* C21: under every interleaving of an external writer with the steps of
\* sync_file, the last_hash a successful copy records is the digest of the
\* bytes the copy wrote to the target.
C21_LastHashIsDigestOfCopy ==
    (path = "copy" /\ outcome[called] = "copy") =>
        file_pairs[called].last_hash = Digest(last_copied[called])

\* C22: whenever run() has returned, after a validation failure or after
\* a cancellation, running is False and the stop finalization has been
\* executed.
C22_ReturnedMeansStopped ==
    pc \in {"returned", "stopped"} => running = FALSE /\ summaries >= 1

\* C23: a pair's status is one of pending, syncing, synced and error; it
\* is pending only until the pair's first sync_file call; and whenever no
\* sync_file call is in progress no pair has status "syncing".
C23_StatusMachine ==
    \A p \in Pairs :
        /\ file_pairs[p].status \in {"pending", "syncing", "synced", "error"}
        /\ file_pairs[p].status = "pending" <=> outcome[p] = "none"
        /\ spc = "idle" => file_pairs[p].status # "syncing"

\* C24: when the target exists but cannot be hashed while the source
\* hashes, sync_file takes the copy path, not the error transition: the
\* call does not end as a no-op, at the source hash or at target.exists(),
\* and until the copy step itself fails neither the pair's nor the run-wide
\* error_count has grown. (The files are those the call began with: no
\* other process has written them since.)
C24_UnreadableTargetIsCopied ==
    (/\ called \in Pairs /\ clean[called] > 0
     /\ snap.src.kind = "file"
     /\ exists(snap.tgt) /\ calculate_file_hash(snap.tgt) = None) =>
        /\ path \in {"running", "copy", "mkdir_err", "copy_err"}
        /\ path \in {"running", "copy"} =>
              /\ file_pairs[called].error_count = snap.pair.error_count
              /\ stats.error_count = snap.error_count
        /\ path = "copy" =>
              /\ file_pairs[called].status = "synced"
              /\ stats.sync_count = snap.sync_count + 1

\* C24: an unreadable target file was overwritten by the copy, with no
\* error counted.
C24_Witness ==
    /\ fresh /\ path = "copy" /\ clean[called] > 0
    /\ snap.tgt.kind = "locked"
    /\ tgt[called] = File("file", snap.src.data)
    /\ file_pairs[called].error_count = 0 /\ stats.error_count = 0

\* C25: the value sync_file returns agrees with the status it leaves: True
\* if and only if the status is "synced", False if and only if it is
\* "error", and it returns one of the two.
C25_ReturnAgreesWithStatus ==
    fresh =>
        /\ ret \in {"True", "False"}
        /\ ret = "True" <=> file_pairs[called].status = "synced"
        /\ ret = "False" <=> file_pairs[called].status = "error"

\* C25: a call that returned False on a source it could not hash, after a
\* call that returned True left the other pair synced.
C25_Witness ==
    /\ fresh /\ called = 2 /\ path = "hashfail"
    /\ ret = "False" /\ file_pairs[2].status = "error"
    /\ file_pairs[1].status = "synced" /\ outcome[1] = "noop"

====
